---- MODULE Spec2Model ----
(***************************************************************************)
(* Model of the Sens Prism Python SDK client (sdk/python/sens/client.py    *)
(* and sdk/python/sens/exceptions.py).                                     *)
(*                                                                         *)
(* Python values are encoded as follows.  A str is a TLA+ string; None     *)
(* where a str may stand is the string None.  A JSON body value is kept as *)
(* its text ("{}" is the empty mapping, "[]" the empty list), JSON null    *)
(* decodes to None.  A header value is a sequence of one-character         *)
(* strings.  An optional int is <<>> (None) or <<n>>.  A dict is a         *)
(* function whose DOMAIN is the set of keys that are present.              *)
(***************************************************************************)
EXTENDS Integers, Sequences, FiniteSets, TLC

VARIABLES
    env,        \* os.environ: the value of SENS_API_KEY, None when unset
    client,     \* the SensClient object: None until __init__ succeeds
    transport,  \* self._client, the httpx.Client: "none", "open", "closed"
    released,   \* how many times the connection pool has been released
    requests,   \* how many HTTP requests the transport has sent
    depth,      \* how many scoped uses (with-blocks) of the client are open
    server,     \* the response the server gives to the next request
    future,     \* the task handed to the executor by an async variant
    last        \* the last call that completed, with its outcome

vars == <<env, client, transport, released, requests, depth, server, future, last>>

----------------------------------------------------------------------------
(* Bounds *)

MaxRequests == 2      \* calls that reach the network in one behaviour
MaxHeaderLen == 2     \* characters in a Retry-After header value
MaxDepth == 2         \* nested scoped uses of one client
MaxSources == 2       \* elements of a "sources" array in a body

----------------------------------------------------------------------------
(* Python values *)

None == "None"
EmptyMap == "{}"
EmptyList == "[]"

NoInt == <<>>
SomeInt(n) == <<n>>

\* bool(v) for the values a body field or an argument can hold
Truthy(v) == v \notin {None, EmptyMap, EmptyList, "", "0", "false"}

EmptyDict == [k \in {} |-> None]

\* dict.get(key, default)
Get(d, key, default) == IF key \in DOMAIN d THEN d[key] ELSE default

\* v or default
OrElse(v, default) == IF Truthy(v) THEN v ELSE default

----------------------------------------------------------------------------
(* int(str) on a header value *)

Digits == {"0", "5"}
Chars == Digits \cup {"x"}

DigitValue(c) == CASE c = "0" -> 0 [] c = "5" -> 5

RECURSIVE DecimalValue(_)
DecimalValue(s) ==
    IF s = <<>> THEN 0
    ELSE 10 * DecimalValue(SubSeq(s, 1, Len(s) - 1)) + DigitValue(s[Len(s)])

\* int(s): the value, or ValueError when s is not a decimal literal
int(s) ==
    IF s # <<>> /\ \A i \in 1..Len(s) : s[i] \in Digits
    THEN [ok |-> TRUE, value |-> DecimalValue(s)]
    ELSE [ok |-> FALSE, value |-> 0]

----------------------------------------------------------------------------
(* exceptions.py *)

SensErrorTypes ==
    {"SensError", "SensAuthError", "SensRateLimitError", "SensNotFoundError",
     "SensValidationError", "SensConflictError", "SensPayloadTooLargeError",
     "SensServiceUnavailableError"}

\* SensError.__init__ and the subclasses that inherit it unchanged
SensError(type, message, code, details) ==
    [type |-> type, message |-> message, code |-> code,
     details |-> OrElse(details, EmptyMap)]

\* SensRateLimitError.__init__ / SensServiceUnavailableError.__init__
SensRetryError(type, message, retry_after, code, details) ==
    [type |-> type, message |-> message, code |-> code,
     details |-> OrElse(details, EmptyMap), retry_after |-> retry_after]

\* an exception that is not part of the taxonomy
PyError(type) == [type |-> type]

Raise(exc) == [tag |-> "raise", exc |-> exc]
Return(value) == [tag |-> "return", value |-> value]

----------------------------------------------------------------------------
(* httpx.Response: status_code, the raw body, the headers *)

\* response.json(): the decoded body, or a decoding error on text that is
\* not JSON.  null decodes to None; the elements of "sources" are objects.
DecodeValue(v) == IF v = "null" THEN None ELSE v

DecodeObject(f) == [k \in DOMAIN f |-> DecodeValue(f[k])]

DecodeFields(f) ==
    [k \in DOMAIN f |->
        IF k = "sources"
        THEN [i \in 1..Len(f[k]) |-> DecodeObject(f[k][i])]
        ELSE DecodeValue(f[k])]

json(body) ==
    IF body.kind = "invalid"
    THEN [ok |-> FALSE, value |-> [kind |-> "dict", fields |-> EmptyDict]]
    ELSE [ok |-> TRUE,
          value |-> [kind |-> body.kind, fields |-> DecodeFields(body.fields)]]

AnySuccessFamilyStatus == 200..299

SuccessStatuses == {200, 201, 202, 204}

\* int(retry_after) if retry_after else None, on response.headers
RetryAfter(headers) ==
    IF "Retry-After" \notin DOMAIN headers \/ headers["Retry-After"] = <<>>
    THEN [ok |-> TRUE, value |-> NoInt]
    ELSE LET n == int(headers["Retry-After"])
         IN  [ok |-> n.ok, value |-> SomeInt(n.value)]

\* the if/elif chain of _handle_response over the error statuses
ErrorFor(status_code, headers, error_message, error_code, error_details) ==
    CASE status_code = 400 ->
            Raise(SensError("SensValidationError", error_message, error_code, error_details))
      [] status_code = 401 ->
            Raise(SensError("SensAuthError", error_message, error_code, error_details))
      [] status_code = 403 ->
            Raise(SensError("SensAuthError", error_message, error_code, error_details))
      [] status_code = 404 ->
            Raise(SensError("SensNotFoundError", error_message, error_code, error_details))
      [] status_code = 409 ->
            Raise(SensError("SensConflictError", error_message, error_code, error_details))
      [] status_code = 413 ->
            Raise(SensError("SensPayloadTooLargeError", error_message, error_code, error_details))
      [] status_code = 429 ->
            LET retry_after == RetryAfter(headers)
            IN  IF retry_after.ok
                THEN Raise(SensRetryError("SensRateLimitError", error_message,
                                          retry_after.value, error_code, error_details))
                ELSE Raise(PyError("ValueError"))
      [] status_code = 503 ->
            LET retry_after == RetryAfter(headers)
            IN  IF retry_after.ok
                THEN Raise(SensRetryError("SensServiceUnavailableError", error_message,
                                          retry_after.value, error_code, error_details))
                ELSE Raise(PyError("ValueError"))
      [] OTHER ->
            Raise(SensError("SensError", error_message, error_code, error_details))

\* SensClient._handle_response
handle_response(response) ==
    LET parsed == json(response.body)
        data == IF parsed.ok THEN parsed.value
                ELSE [kind |-> "dict", fields |-> EmptyDict]
    IN  IF response.status_code \in SuccessStatuses
        THEN Return(data)
        ELSE IF data.kind # "dict"
        THEN Raise(PyError("AttributeError"))    \* data.get on a non-dict
        ELSE ErrorFor(response.status_code, response.headers,
                      Get(data.fields, "message",
                          "HTTP " \o ToString(response.status_code)),
                      Get(data.fields, "code", None),
                      Get(data.fields, "details", EmptyMap))

----------------------------------------------------------------------------
(* The typed records of client.py *)

Document(id, status, title, size_bytes, tags, created_at, estimated_ready_at, ready_at, page_count, chunk_count, concept_count) ==
    [id |-> id, status |-> status, title |-> title, size_bytes |-> size_bytes,
     tags |-> tags, created_at |-> created_at,
     estimated_ready_at |-> estimated_ready_at, ready_at |-> ready_at,
     page_count |-> page_count, chunk_count |-> chunk_count,
     concept_count |-> concept_count]

Source(document_id, document_title, page, excerpt, confidence_score, semantic_layer, matched_concepts, pragmatic_insights) ==
    [document_id |-> document_id, document_title |-> document_title,
     page |-> page, excerpt |-> excerpt, confidence_score |-> confidence_score,
     semantic_layer |-> semantic_layer, matched_concepts |-> matched_concepts,
     pragmatic_insights |-> pragmatic_insights]

QueryResult(query_id, query, answer, confidence_score, processing_time_ms, sources) ==
    [query_id |-> query_id, query |-> query, answer |-> answer,
     confidence_score |-> confidence_score,
     processing_time_ms |-> processing_time_ms, sources |-> sources]

ContextRail(query_id, query, retrieved_at, sources, summary) ==
    [query_id |-> query_id, query |-> query, retrieved_at |-> retrieved_at,
     sources |-> sources, summary |-> summary]

\* result[key] for each key in turn: whether every subscript finds its key
HasKeys(fields, keys) == keys \subseteq DOMAIN fields

----------------------------------------------------------------------------
(* The transport: self._client, an httpx.Client *)

DefaultBaseUrl == "https://api.sens.ai/v1"

\* one of self._client.post / get / delete.  A closed httpx.Client refuses
\* to send; an open one sends the request and hands back the server's
\* response, or raises when no response arrives.
Send(tstate, srv, request) ==
    IF tstate # "open"
    THEN [sent |-> 0, outcome |-> Raise(PyError("RuntimeError"))]
    ELSE IF srv.kind = "failure"
    THEN [sent |-> 1, outcome |-> Raise(PyError("TransportError"))]
    ELSE [sent |-> 1, outcome |-> Return(srv)]

----------------------------------------------------------------------------
(* Arguments *)

\* an Optional[List[str]] argument
NoList == [given |-> FALSE, items |-> <<>>]
List(items) == [given |-> TRUE, items |-> items]
TruthyList(l) == l.given /\ l.items # <<>>

\* ",".join(items)
RECURSIVE Join(_)
Join(items) ==
    IF items = <<>> THEN ""
    ELSE IF Len(items) = 1 THEN items[1]
    ELSE items[1] \o "," \o Join(Tail(items))

\* the file system seen by os.path.exists and open
FileSystem == ("report.pdf" :> "file") @@ ("archive" :> "directory")

exists(file_path) == file_path \in DOMAIN FileSystem

----------------------------------------------------------------------------
(* SensClient operations.  Each yields the number of requests it sent, the  *)
(* request it built and its outcome.                                        *)

NoRequest == [method |-> None, url |-> None, body |-> EmptyDict]

Done(sent, request, outcome) ==
    [sent |-> sent, request |-> request, outcome |-> outcome]

DecodeUpload(result) ==
    IF result.kind # "dict" THEN Raise(PyError("TypeError"))
    ELSE IF ~HasKeys(result.fields, {"id", "status"}) THEN Raise(PyError("KeyError"))
    ELSE Return(Document(result.fields["id"], result.fields["status"],
                         Get(result.fields, "title", None),
                         Get(result.fields, "size_bytes", None),
                         Get(result.fields, "tags", None),
                         Get(result.fields, "created_at", None),
                         Get(result.fields, "estimated_ready_at", None),
                         None, None, None, None))

\* no existence check: open() fails on the missing file
upload_document_unchecked(file_path, title, tags, tstate, srv) ==
    IF ~exists(file_path)
    THEN Done(0, NoRequest, Raise(PyError("FileNotFoundError")))
    ELSE IF FileSystem[file_path] # "file"
    THEN Done(0, NoRequest, Raise(PyError("IsADirectoryError")))
    ELSE LET data == (IF Truthy(title) THEN ("title" :> title) ELSE EmptyDict)
                     @@ (IF TruthyList(tags) THEN ("tags" :> Join(tags.items))
                         ELSE EmptyDict)
             request == [method |-> "POST", url |-> DefaultBaseUrl \o "/documents",
                         body |-> ("file" :> file_path) @@ data]
             response == Send(tstate, srv, request)
         IN  IF response.outcome.tag = "raise"
             THEN Done(response.sent, request, response.outcome)
             ELSE LET result == handle_response(response.outcome.value)
                  IN  Done(response.sent, request,
                           IF result.tag = "raise" THEN result
                           ELSE DecodeUpload(result.value))

upload_document(file_path, title, tags, tstate, srv) ==
    IF ~exists(file_path)
    THEN Done(0, NoRequest,
              Raise(SensError("SensValidationError",
                              "File not found: " \o file_path, "SENS_003", None)))
    ELSE IF FileSystem[file_path] # "file"
    THEN Done(0, NoRequest, Raise(PyError("IsADirectoryError")))
    ELSE LET data == (IF Truthy(title) THEN ("title" :> title) ELSE EmptyDict)
                     @@ (IF TruthyList(tags) THEN ("tags" :> Join(tags.items))
                         ELSE EmptyDict)
             request == [method |-> "POST", url |-> DefaultBaseUrl \o "/documents",
                         body |-> ("file" :> file_path) @@ data]
             response == Send(tstate, srv, request)
         IN  IF response.outcome.tag = "raise"
             THEN Done(response.sent, request, response.outcome)
             ELSE LET result == handle_response(response.outcome.value)
                  IN  Done(response.sent, request,
                           IF result.tag = "raise" THEN result
                           ELSE DecodeUpload(result.value))

DecodeGet(result) ==
    IF result.kind # "dict" THEN Raise(PyError("TypeError"))
    ELSE IF ~HasKeys(result.fields, {"id", "status"}) THEN Raise(PyError("KeyError"))
    ELSE Return(Document(result.fields["id"], result.fields["status"],
                         Get(result.fields, "title", None),
                         Get(result.fields, "size_bytes", None),
                         Get(result.fields, "tags", None),
                         Get(result.fields, "created_at", None),
                         None,
                         Get(result.fields, "ready_at", None),
                         Get(result.fields, "page_count", None),
                         Get(result.fields, "chunk_count", None),
                         Get(result.fields, "concept_count", None)))

\* a second attempt after a 429 or 503 answer
get_document_retrying(document_id, tstate, srv) ==
    LET request == [method |-> "GET",
                    url |-> DefaultBaseUrl \o "/documents/" \o document_id,
                    body |-> EmptyDict]
        first == Send(tstate, srv, request)
        again == first.outcome.tag = "return"
                 /\ first.outcome.value.status_code \in {429, 503}
        response == Send(tstate, srv, request)
        sent == first.sent + (IF again THEN response.sent ELSE 0)
    IN  IF response.outcome.tag = "raise"
        THEN Done(sent, request, response.outcome)
        ELSE LET result == handle_response(response.outcome.value)
             IN  Done(sent, request,
                      IF result.tag = "raise" THEN result
                      ELSE DecodeGet(result.value))

get_document(document_id, tstate, srv) ==
    LET request == [method |-> "GET",
                    url |-> DefaultBaseUrl \o "/documents/" \o document_id,
                    body |-> EmptyDict]
        response == Send(tstate, srv, request)
    IN  IF response.outcome.tag = "raise"
        THEN Done(response.sent, request, response.outcome)
        ELSE LET result == handle_response(response.outcome.value)
             IN  Done(response.sent, request,
                      IF result.tag = "raise" THEN result
                      ELSE DecodeGet(result.value))

delete_document(document_id, tstate, srv) ==
    LET request == [method |-> "DELETE",
                    url |-> DefaultBaseUrl \o "/documents/" \o document_id,
                    body |-> EmptyDict]
        response == Send(tstate, srv, request)
    IN  IF response.outcome.tag = "raise"
        THEN Done(response.sent, request, response.outcome)
        ELSE LET result == handle_response(response.outcome.value)
             IN  Done(response.sent, request,
                      IF result.tag = "raise" THEN result ELSE Return(None))

\* the sources taken in the reverse of the server's order
QuerySources_reversed(raw) ==
    [i \in 1..Len(raw) |->
        Source(raw[Len(raw) + 1 - i]["document_id"],
               Get(raw[Len(raw) + 1 - i], "document_title", None),
               Get(raw[Len(raw) + 1 - i], "page", None),
               None,
               Get(raw[Len(raw) + 1 - i], "confidence_score", None),
               None, None, None)]

\* the list comprehension of query(): one Source per element, in order
QuerySources(raw) ==
    [i \in 1..Len(raw) |->
        Source(raw[i]["document_id"],
               Get(raw[i], "document_title", None),
               Get(raw[i], "page", None),
               None,
               Get(raw[i], "confidence_score", None),
               None, None, None)]

DecodeQuery(result) ==
    IF result.kind # "dict" THEN Raise(PyError("AttributeError"))
    ELSE LET raw == Get(result.fields, "sources", <<>>)
         IN  IF \E i \in 1..Len(raw) : "document_id" \notin DOMAIN raw[i]
             THEN Raise(PyError("KeyError"))
             ELSE IF ~HasKeys(result.fields,
                              {"query_id", "query", "answer", "confidence_score",
                               "processing_time_ms"})
             THEN Raise(PyError("KeyError"))
             ELSE Return(QueryResult(result.fields["query_id"],
                                     result.fields["query"],
                                     result.fields["answer"],
                                     result.fields["confidence_score"],
                                     result.fields["processing_time_ms"],
                                     QuerySources(raw)))

DefaultLimit == 3

\* limit checked locally before the request is sent
query_validating(text, document_ids, tags, limit, confidence_threshold, tstate, srv) ==
    LET payload == ("query" :> text) @@ ("limit" :> limit)
                   @@ ("confidence_threshold" :> confidence_threshold)
                   @@ (IF TruthyList(document_ids)
                       THEN ("document_ids" :> document_ids.items) ELSE EmptyDict)
                   @@ (IF TruthyList(tags)
                       THEN ("tags" :> tags.items) ELSE EmptyDict)
        request == [method |-> "POST", url |-> DefaultBaseUrl \o "/query",
                    body |-> payload]
        response == Send(tstate, srv, request)
    IN  IF limit < 1
        THEN Done(0, NoRequest,
                  Raise(SensError("SensValidationError", "limit must be >= 1",
                                  "SENS_003", None)))
        ELSE IF response.outcome.tag = "raise"
        THEN Done(response.sent, request, response.outcome)
        ELSE LET result == handle_response(response.outcome.value)
             IN  Done(response.sent, request,
                      IF result.tag = "raise" THEN result
                      ELSE DecodeQuery(result.value))

query(text, document_ids, tags, limit, confidence_threshold, tstate, srv) ==
    LET payload == ("query" :> text) @@ ("limit" :> limit)
                   @@ ("confidence_threshold" :> confidence_threshold)
                   @@ (IF TruthyList(document_ids)
                       THEN ("document_ids" :> document_ids.items) ELSE EmptyDict)
                   @@ (IF TruthyList(tags)
                       THEN ("tags" :> tags.items) ELSE EmptyDict)
        request == [method |-> "POST", url |-> DefaultBaseUrl \o "/query",
                    body |-> payload]
        response == Send(tstate, srv, request)
    IN  IF response.outcome.tag = "raise"
        THEN Done(response.sent, request, response.outcome)
        ELSE LET result == handle_response(response.outcome.value)
             IN  Done(response.sent, request,
                      IF result.tag = "raise" THEN result
                      ELSE DecodeQuery(result.value))

\* the list comprehension of get_context_rail()
RailSources(raw) ==
    [i \in 1..Len(raw) |->
        Source(raw[i]["document_id"],
               Get(raw[i], "document_title", None),
               Get(raw[i], "page", None),
               Get(raw[i], "excerpt", None),
               Get(raw[i], "confidence_score", None),
               Get(raw[i], "semantic_layer", None),
               Get(raw[i], "matched_concepts", None),
               Get(raw[i], "pragmatic_insights", None))]

DecodeRail(result) ==
    IF result.kind # "dict" THEN Raise(PyError("AttributeError"))
    ELSE LET raw == Get(result.fields, "sources", <<>>)
         IN  IF \E i \in 1..Len(raw) : "document_id" \notin DOMAIN raw[i]
             THEN Raise(PyError("KeyError"))
             ELSE IF ~HasKeys(result.fields, {"query_id", "query", "retrieved_at"})
             THEN Raise(PyError("KeyError"))
             ELSE Return(ContextRail(result.fields["query_id"],
                                     result.fields["query"],
                                     result.fields["retrieved_at"],
                                     RailSources(raw),
                                     Get(result.fields, "summary", EmptyMap)))

get_context_rail(query_id, tstate, srv) ==
    LET request == [method |-> "GET",
                    url |-> DefaultBaseUrl \o "/context-rail/" \o query_id,
                    body |-> EmptyDict]
        response == Send(tstate, srv, request)
    IN  IF response.outcome.tag = "raise"
        THEN Done(response.sent, request, response.outcome)
        ELSE LET result == handle_response(response.outcome.value)
             IN  Done(response.sent, request,
                      IF result.tag = "raise" THEN result
                      ELSE DecodeRail(result.value))

----------------------------------------------------------------------------
(* What the server can answer *)

Absent == "<absent>"

Field(key, value) == IF value = Absent THEN EmptyDict ELSE (key :> value)

NonEmptyMap == "{\"field\": \"query\"}"

Statuses == {200, 201, 202, 203, 204, 301, 400, 401, 403, 404, 409, 413, 429,
             500, 503}

JsonObject(fields) == [kind |-> "dict", fields |-> fields]

ErrorBodies ==
    { JsonObject(Field("message", m) @@ Field("code", c) @@ Field("details", d)) :
        m \in {Absent, "slow down", "null"},
        c \in {Absent, "SENS_429"},
        d \in {Absent, "null", EmptyMap, EmptyList, NonEmptyMap} }

DocumentBodies ==
    { JsonObject(Field("id", i) @@ Field("status", st) @@ Field("title", t)
                 @@ Field("page_count", pc)) :
        i \in {Absent, "doc_1"},
        st \in {Absent, "processing"},
        t \in {Absent, "Report", "null"},
        pc \in {Absent, "12"} }

SourceObjects ==
    { ("document_id" :> "doc_1") @@ ("document_title" :> "Report")
        @@ ("page" :> "3") @@ ("excerpt" :> "text")
        @@ ("confidence_score" :> "0.9") @@ ("semantic_layer" :> "fact"),
      ("document_id" :> "doc_2") @@ ("confidence_score" :> "0.4"),
      ("page" :> "1") }

SourceArrays == UNION { [1..n -> SourceObjects] : n \in 0..MaxSources }

SourcesField == {EmptyDict} \cup { ("sources" :> a) : a \in SourceArrays }

QueryBodies ==
    { JsonObject(("query_id" :> "q_123") @@ ("query" :> "what") @@ Field("answer", a)
                 @@ ("confidence_score" :> "0.8") @@ ("processing_time_ms" :> "120")
                 @@ src) :
        a \in {Absent, "42"}, src \in SourcesField }

RailBodies ==
    { JsonObject(("query_id" :> "q_123") @@ ("query" :> "what")
                 @@ Field("retrieved_at", r) @@ src) :
        r \in {Absent, "2024-01-01"}, src \in SourcesField }

InvalidBody == [kind |-> "invalid", fields |-> EmptyDict]
ListBody == [kind |-> "list", fields |-> EmptyDict]

Bodies == {InvalidBody, ListBody} \cup ErrorBodies \cup DocumentBodies
          \cup QueryBodies \cup RailBodies

HeaderValues == UNION { [1..n -> Chars] : n \in 0..MaxHeaderLen }

HeaderSets == {EmptyDict} \cup { ("Retry-After" :> v) : v \in HeaderValues }

Response(status_code, body, headers) ==
    [kind |-> "response", status_code |-> status_code, body |-> body,
     headers |-> headers]

\* no response arrives: timeout, connection refused
Failure == [kind |-> "failure", status_code |-> 0, body |-> InvalidBody,
            headers |-> EmptyDict]

\* the placeholder of a call that got no answer from the network
NoResponse == [kind |-> "none", status_code |-> 0, body |-> InvalidBody,
               headers |-> EmptyDict]

Responses ==
    { Response(st, b, h) : st \in Statuses, b \in Bodies, h \in HeaderSets }

----------------------------------------------------------------------------
(* Construction and resource lifecycle *)

NoClient == [exists |-> FALSE, api_key |-> None]

\* the transport created first, the key checked afterwards
init_transport_first(api_key, environ) ==
    LET key == OrElse(api_key, environ)
    IN  IF ~Truthy(key)
        THEN [client |-> NoClient, transport |-> "open",
              outcome |-> Raise(SensError("SensValidationError", "API key required",
                                          "SENS_003", None))]
        ELSE [client |-> [exists |-> TRUE, api_key |-> key], transport |-> "open",
              outcome |-> Return(None)]

\* SensClient.__init__: the key check, then the creation of the transport
init(api_key, environ) ==
    LET key == OrElse(api_key, environ)
    IN  IF ~Truthy(key)
        THEN [client |-> NoClient, transport |-> "none",
              outcome |-> Raise(SensError("SensValidationError", "API key required",
                                          "SENS_003", None))]
        ELSE [client |-> [exists |-> TRUE, api_key |-> key], transport |-> "open",
              outcome |-> Return(None)]

\* httpx.Client.close(): releases the pool unless it is already closed
TransportClose(tstate) ==
    [transport |-> "closed", released |-> IF tstate = "open" THEN 1 ELSE 0]

\* SensClient.close
close(tstate) == TransportClose(tstate)

\* closing only when the block ended normally
exit_unless_raised(exc_type, tstate) ==
    LET c == IF exc_type = None THEN close(tstate)
             ELSE [transport |-> tstate, released |-> 0]
    IN  [transport |-> c.transport, released |-> c.released, suppress |-> FALSE]

\* SensClient.__exit__: closes whatever the exception; returns None, so an
\* exception raised in the block keeps propagating
exit(exc_type, tstate) ==
    LET c == close(tstate)
    IN  [transport |-> c.transport, released |-> c.released, suppress |-> FALSE]

----------------------------------------------------------------------------
(* The asynchronous variants: the call handed to loop.run_in_executor *)

upload_document_async(file_path, title, tags) ==
    [fn |-> "upload_document", args |-> <<file_path, title, tags>>]

\* document_ids and tags handed over in the wrong order
query_async_swapped(text, document_ids, tags, limit, confidence_threshold) ==
    [fn |-> "query",
     args |-> <<text, tags, document_ids, limit, confidence_threshold>>]

query_async(text, document_ids, tags, limit, confidence_threshold) ==
    [fn |-> "query",
     args |-> <<text, document_ids, tags, limit, confidence_threshold>>]

\* the worker thread: fn(*args)
Execute(task, tstate, srv) ==
    IF task.fn = "upload_document"
    THEN upload_document(task.args[1], task.args[2], task.args[3], tstate, srv)
    ELSE query(task.args[1], task.args[2], task.args[3], task.args[4],
               task.args[5], tstate, srv)

----------------------------------------------------------------------------
(* Inputs of the calls *)

EnvValues == {None, "", "sens_sk_env"}
KeyArgs == {None, "", "sens_sk_arg"}
UploadArgs ==
    { <<"report.pdf", "Report", List(<<"legal", "contract">>)>>,
      <<"report.pdf", None, NoList>>,
      <<"missing.pdf", None, NoList>>,
      <<"archive", None, NoList>> }
QueryArgs ==
    { <<"what", List(<<"doc_1">>), NoList, DefaultLimit, "0.5">>,
      <<"what", NoList, List(<<"legal">>), 0, "1.5">> }
DocumentIds == {"", "doc_1"}
QueryIds == {"", "q_123"}

\* the answers of the server in the lifecycle specification
ScenarioResponses ==
    { Response(202, JsonObject(("id" :> "doc_1") @@ ("status" :> "processing")),
               EmptyDict),
      Response(200, JsonObject(("query_id" :> "q_123") @@ ("query" :> "what")
                               @@ ("answer" :> "42") @@ ("confidence_score" :> "0.8")
                               @@ ("processing_time_ms" :> "120")),
               EmptyDict),
      Response(204, InvalidBody, EmptyDict),
      Response(400, JsonObject(("message" :> "invalid request")), EmptyDict),
      Response(404, JsonObject(EmptyDict), EmptyDict),
      Response(429, JsonObject(("message" :> "slow down") @@ ("code" :> "SENS_429")),
               ("Retry-After" :> <<"5">>)),
      Response(503, InvalidBody, ("Retry-After" :> <<"5">>)),
      Failure }

----------------------------------------------------------------------------
(* State *)

NoCall == [op |-> "none", args |-> <<>>, tstate |-> "none", resp |-> NoResponse,
           sent |-> 0, request |-> NoRequest, outcome |-> Return(None)]

Called(op, args, tstate, resp, r) ==
    [op |-> op, args |-> args, tstate |-> tstate, resp |-> resp, sent |-> r.sent,
     request |-> r.request, outcome |-> r.outcome]

NoFuture == [state |-> "none", op |-> "none", args |-> <<>>,
             task |-> [fn |-> "none", args |-> <<>>], tstate |-> "none",
             resp |-> NoResponse, sent |-> 0, request |-> NoRequest,
             outcome |-> Return(None)]

Init ==
    /\ env \in EnvValues
    /\ client = NoClient
    /\ transport = "none"
    /\ released = 0
    /\ requests = 0
    /\ depth = 0
    /\ server \in ScenarioResponses
    /\ future = NoFuture
    /\ last = NoCall

----------------------------------------------------------------------------
(* Actions *)

\* client = SensClient(api_key=...)
Construct ==
    /\ ~client.exists
    /\ \E api_key \in KeyArgs :
         LET c == init(api_key, env)
         IN  /\ client' = c.client
             /\ transport' = c.transport
             /\ last' = [NoCall EXCEPT !.op = "__init__", !.args = <<api_key>>,
                                       !.outcome = c.outcome]
    /\ UNCHANGED <<env, released, requests, depth, server, future>>

\* a synchronous operation returns or raises
Complete(op, args, r) ==
    /\ requests' = requests + r.sent
    /\ last' = Called(op, args, transport, server, r)
    /\ UNCHANGED <<env, client, transport, released, depth, server, future>>

Upload(file_path, title, tags) ==
    /\ client.exists /\ requests < MaxRequests
    /\ Complete("upload_document", <<file_path, title, tags>>,
                upload_document(file_path, title, tags, transport, server))

GetDocument(document_id) ==
    /\ client.exists /\ requests < MaxRequests
    /\ Complete("get_document", <<document_id>>,
                get_document(document_id, transport, server))

DeleteDocument(document_id) ==
    /\ client.exists /\ requests < MaxRequests
    /\ Complete("delete_document", <<document_id>>,
                delete_document(document_id, transport, server))

Query(text, document_ids, tags, limit, confidence_threshold) ==
    /\ client.exists /\ requests < MaxRequests
    /\ Complete("query", <<text, document_ids, tags, limit, confidence_threshold>>,
                query(text, document_ids, tags, limit, confidence_threshold,
                      transport, server))

GetContextRail(query_id) ==
    /\ client.exists /\ requests < MaxRequests
    /\ Complete("get_context_rail", <<query_id>>,
                get_context_rail(query_id, transport, server))

\* an async variant runs up to its await: the task is with the executor
Submit(op, args, task) ==
    /\ future' = [NoFuture EXCEPT !.state = "pending", !.op = op, !.args = args,
                                  !.task = task]
    /\ UNCHANGED <<env, client, transport, released, requests, depth, server, last>>

UploadAsync(file_path, title, tags) ==
    /\ client.exists /\ requests < MaxRequests
    /\ future.state = "none"
    /\ Submit("upload_document_async", <<file_path, title, tags>>,
           upload_document_async(file_path, title, tags))

QueryAsync(text, document_ids, tags, limit, confidence_threshold) ==
    /\ client.exists /\ requests < MaxRequests
    /\ future.state = "none"
    /\ Submit("query_async", <<text, document_ids, tags, limit, confidence_threshold>>,
           query_async(text, document_ids, tags, limit, confidence_threshold))

\* the worker thread runs the blocking call and sets the future
ExecutorRun ==
    /\ future.state = "pending"
    /\ LET r == Execute(future.task, transport, server)
       IN  /\ requests' = requests + r.sent
           /\ future' = [future EXCEPT !.state = "done", !.tstate = transport,
                                       !.resp = server, !.sent = r.sent,
                                       !.request = r.request,
                                       !.outcome = r.outcome]
    /\ UNCHANGED <<env, client, transport, released, depth, server, last>>

\* the coroutine resumes with the result or the exception of the future
Resolve ==
    /\ future.state = "done"
    /\ last' = [op |-> future.op, args |-> future.args, tstate |-> future.tstate,
                resp |-> future.resp, sent |-> future.sent,
                request |-> future.request, outcome |-> future.outcome]
    /\ future' = NoFuture
    /\ UNCHANGED <<env, client, transport, released, requests, depth, server>>

\* client.close()
Close ==
    /\ client.exists
    /\ LET c == close(transport)
       IN  /\ transport' = c.transport
           /\ released' = released + c.released
    /\ last' = [NoCall EXCEPT !.op = "close", !.tstate = transport]
    /\ UNCHANGED <<env, client, requests, depth, server, future>>

\* with client: ...
Enter ==
    /\ client.exists /\ depth < MaxDepth
    /\ depth' = depth + 1
    /\ last' = [NoCall EXCEPT !.op = "__enter__", !.tstate = transport]
    /\ UNCHANGED <<env, client, transport, released, requests, server, future>>

\* the exception that is leaving the block, None when the block ends normally
Propagating ==
    IF last.outcome.tag = "raise" THEN {last.outcome.exc.type} ELSE {}

Exit ==
    /\ client.exists /\ depth > 0
    /\ \E exc_type \in {None} \cup Propagating :
         LET x == exit(exc_type, transport)
         IN  /\ transport' = x.transport
             /\ released' = released + x.released
             /\ last' = [NoCall EXCEPT !.op = "__exit__", !.args = <<exc_type>>,
                                       !.tstate = transport,
                                       !.outcome = IF exc_type = None \/ x.suppress
                                                   THEN Return(None)
                                                   ELSE last.outcome]
    /\ depth' = depth - 1
    /\ UNCHANGED <<env, client, requests, server, future>>

\* the server's state moves on
ServerChange ==
    /\ server' \in ScenarioResponses \ {server}
    /\ UNCHANGED <<env, client, transport, released, requests, depth, future, last>>

Next ==
    \/ Construct
    \/ \E a \in UploadArgs : Upload(a[1], a[2], a[3])
    \/ \E d \in DocumentIds : GetDocument(d)
    \/ \E d \in DocumentIds : DeleteDocument(d)
    \/ \E a \in QueryArgs : Query(a[1], a[2], a[3], a[4], a[5])
    \/ \E q \in QueryIds : GetContextRail(q)
    \/ Close
    \/ Enter
    \/ Exit
    \/ ServerChange

Spec == Init /\ [][Next]_vars

----------------------------------------------------------------------------
(* The asynchronous variants, on a constructed client.  One call is awaited *)
(* at a time; the client may be closed and the server may change while the  *)
(* task waits for its worker.                                               *)

InitAsync ==
    /\ env = "sens_sk_env"
    /\ client = init(None, "sens_sk_env").client
    /\ transport = init(None, "sens_sk_env").transport
    /\ released = 0
    /\ requests = 0
    /\ depth = 0
    /\ server \in ScenarioResponses
    /\ future = NoFuture
    /\ last = NoCall

NextAsync ==
    \/ \E a \in UploadArgs : UploadAsync(a[1], a[2], a[3])
    \/ \E a \in QueryArgs : QueryAsync(a[1], a[2], a[3], a[4], a[5])
    \/ ExecutorRun
    \/ Resolve
    \/ Close
    \/ ServerChange

SpecAsync == InitAsync /\ [][NextAsync]_vars

----------------------------------------------------------------------------
(* The response handling on its own: any answer of the server, given to    *)
(* _handle_response and to each operation of a freshly constructed client. *)

InitMap ==
    /\ env = "sens_sk_env"
    /\ client = init(None, "sens_sk_env").client
    /\ transport = init(None, "sens_sk_env").transport
    /\ released = 0
    /\ requests = 0
    /\ depth = 0
    /\ server \in Responses
    /\ future = NoFuture
    /\ last = NoCall

\* client._handle_response(response)
HandleResponse ==
    /\ client.exists /\ requests < MaxRequests
    /\ last' = [NoCall EXCEPT !.op = "_handle_response", !.tstate = transport,
                              !.resp = server,
                              !.outcome = handle_response(server)]
    /\ UNCHANGED <<env, client, transport, released, requests, depth, server, future>>

FirstHandleResponse == last = NoCall /\ HandleResponse

FirstUpload == last = NoCall /\ Upload("report.pdf", None, NoList)

FirstGetDocument == last = NoCall /\ GetDocument("doc_1")

FirstDeleteDocument == last = NoCall /\ DeleteDocument("doc_1")

FirstQuery == last = NoCall /\ Query("what", NoList, NoList, DefaultLimit, "0.5")

FirstGetContextRail == last = NoCall /\ GetContextRail("q_123")

NextMap ==
    \/ FirstHandleResponse
    \/ FirstUpload
    \/ FirstGetDocument
    \/ FirstDeleteDocument
    \/ FirstQuery
    \/ FirstGetContextRail

SpecMap == InitMap /\ [][NextMap]_vars

----------------------------------------------------------------------------
(* Properties of the response handling (SpecMap) *)

\* the table of the error mapping
TaxonomyMember(status) ==
    CASE status = 400 -> "SensValidationError"
      [] status \in {401, 403} -> "SensAuthError"
      [] status = 404 -> "SensNotFoundError"
      [] status = 409 -> "SensConflictError"
      [] status = 413 -> "SensPayloadTooLargeError"
      [] status = 429 -> "SensRateLimitError"
      [] status = 503 -> "SensServiceUnavailableError"
      [] OTHER -> "SensError"

Answered == last.op # "none" /\ last.resp.kind = "response" /\ last.sent = 1

NonSuccess == Answered /\ last.resp.status_code \notin {200, 201, 202, 204}

\* the fields of the decoded body; none when the body is not an object
BodyFields ==
    IF last.resp.body.kind = "dict" THEN json(last.resp.body).value.fields
    ELSE EmptyDict

\* C1: for every non-success status and every decoded body (the response
\* carrying no Retry-After header, so that status and body alone decide) the
\* outcome is the taxonomy error of the table: 400 Validation, 401/403
\* Authentication, 404 NotFound, 409 Conflict, 413 PayloadTooLarge,
\* 429 RateLimit, 503 ServiceUnavailable, any other status the base error;
\* nothing else.
C1_ErrorMappingTotal ==
    (NonSuccess /\ "Retry-After" \notin DOMAIN last.resp.headers) =>
        /\ last.outcome.tag = "raise"
        /\ last.outcome.exc.type = TaxonomyMember(last.resp.status_code)

\* C2: every error raised from a non-success response is a taxonomy error
\* whose message is the body's `message` (or "HTTP <status>" when absent),
\* whose code is the body's `code` (or None when absent) and whose details
\* is the body's `details` (or the empty mapping when absent).
C2_ErrorCarriesBodyFields ==
    NonSuccess =>
        /\ last.outcome.tag = "raise"
        /\ last.outcome.exc.type \in SensErrorTypes
        /\ last.outcome.exc.message =
             (IF "message" \in DOMAIN BodyFields THEN BodyFields["message"]
              ELSE "HTTP " \o ToString(last.resp.status_code))
        /\ last.outcome.exc.code =
             (IF "code" \in DOMAIN BodyFields THEN BodyFields["code"] ELSE None)
        /\ last.outcome.exc.details =
             (IF "details" \in DOMAIN BodyFields THEN BodyFields["details"]
              ELSE EmptyMap)

IsNumeric(v) == v # <<>> /\ \A i \in 1..Len(v) : v[i] \in {"0", "5"}

\* C3: for a 429 or 503 response (whose body is an object or is not JSON)
\* the caller receives the RateLimit / ServiceUnavailable error; its
\* retry_after is the integer value of the Retry-After header when the
\* header is present and numeric, and None when it is absent or not numeric.
C3_RetryAfterNeverRaises ==
    (NonSuccess /\ last.resp.status_code \in {429, 503}
       /\ last.resp.body.kind # "list") =>
        /\ last.outcome.tag = "raise"
        /\ last.outcome.exc.type = TaxonomyMember(last.resp.status_code)
        /\ last.outcome.exc.retry_after =
             (IF "Retry-After" \in DOMAIN last.resp.headers
                 /\ IsNumeric(last.resp.headers["Retry-After"])
              THEN <<DecimalValue(last.resp.headers["Retry-After"])>>
              ELSE <<>>)

\* C4: after a success status with a body that cannot be parsed, every
\* operation completes by returning its result; it never raises.
C4_UnparseableSuccessBodyReturns ==
    (Answered /\ last.resp.status_code \in {200, 201, 202, 204}
       /\ last.resp.body.kind = "invalid"
       /\ last.op \in {"upload_document", "get_document", "delete_document",
                       "query", "get_context_rail"}) =>
        last.outcome.tag = "return"

----------------------------------------------------------------------------
(* Properties of the calls and of the lifecycle (Spec, SpecAsync) *)

SyncOps == {"upload_document", "get_document", "delete_document", "query",
            "get_context_rail"}

\* a call completed in this step
CallStep == last' # last \/ requests' # requests

\* C5: every call of get, delete, query or getContextRail, and every upload
\* of an existing file, on an open transport sends exactly one request
\* whatever the answer (429 and 503 with Retry-After included); a failed
\* call hands its error to the caller and sends nothing more.
C5_OneRequestPerCall ==
    [][ (/\ CallStep
         /\ last'.op \in SyncOps
         /\ last'.tstate = "open"
         /\ last'.op = "upload_document" =>
                (last'.args[1] \in DOMAIN FileSystem
                   /\ FileSystem[last'.args[1]] = "file"))
        => (/\ requests' = requests + 1
            /\ last'.sent = 1
            /\ last'.resp = server
            /\ (server.kind = "response"
                  /\ server.status_code \notin {200, 201, 202, 204})
                 => last'.outcome.tag = "raise") ]_vars

\* a rate-limited query with a Retry-After header, after an earlier request
C5_Witness ==
    /\ last.op = "query"
    /\ last.resp.kind = "response"
    /\ last.resp.status_code = 429
    /\ "Retry-After" \in DOMAIN last.resp.headers
    /\ last.outcome.tag = "raise"
    /\ last.outcome.exc.type = "SensRateLimitError"
    /\ last.sent = 1
    /\ requests = 2

\* C6: upload() with a path that does not exist raises the Validation error
\* and sends no request: the request counter is unchanged, whatever the
\* state of the client.
C6_MissingFileNoRequest ==
    [][ (CallStep /\ last'.op = "upload_document"
           /\ last'.args[1] \notin {"report.pdf", "archive"})
        => (/\ requests' = requests
            /\ last'.sent = 0
            /\ last'.outcome.tag = "raise"
            /\ last'.outcome.exc.type = "SensValidationError") ]_vars

\* the failed upload on a closed client that has sent a request before
C6_Witness ==
    /\ last.op = "upload_document"
    /\ last.args[1] = "missing.pdf"
    /\ last.outcome.tag = "raise"
    /\ last.outcome.exc.type = "SensValidationError"
    /\ last.tstate = "closed"
    /\ requests = 1

\* C7: construction with no key argument and no SENS_API_KEY fails with the
\* validation error before the transport is created and before any request,
\* and leaves no client object; with a key from the argument or from the
\* environment it succeeds.  Without a client no operation has run.
C7_KeyRequiredAtConstruction ==
    /\ last.op = "__init__" =>
         /\ (last.args[1] = None /\ env = None) =>
               /\ last.outcome.tag = "raise"
               /\ last.outcome.exc.type = "SensValidationError"
               /\ ~client.exists
               /\ transport = "none"
         /\ (last.args[1] = "sens_sk_arg" \/ env = "sens_sk_env") =>
               /\ last.outcome.tag = "return"
               /\ client.exists
               /\ client.api_key =
                    (IF last.args[1] = "sens_sk_arg" THEN "sens_sk_arg"
                     ELSE "sens_sk_env")
               /\ transport = "open"
    /\ ~client.exists =>
         /\ last.op \in {"none", "__init__"}
         /\ transport = "none"
         /\ requests = 0
         /\ released = 0

\* the construction that failed for want of a key
C7_Witness ==
    /\ last.op = "__init__"
    /\ last.args[1] = None
    /\ env = None
    /\ last.outcome.tag = "raise"
    /\ ~client.exists

\* the synchronous operation an asynchronous variant stands for
SyncOf(op, args, tstate, srv) ==
    IF op = "upload_document_async"
    THEN upload_document(args[1], args[2], args[3], tstate, srv)
    ELSE query(args[1], args[2], args[3], args[4], args[5], tstate, srv)

SameAsSync(call) ==
    LET r == SyncOf(call.op, call.args, call.tstate, call.resp)
    IN  /\ call.outcome = r.outcome
        /\ call.request = r.request
        /\ call.sent = r.sent
        /\ (call.tstate = "open" /\ call.request # NoRequest) => call.sent = 1

\* C9: the future of upload_document_async / query_async holds, and the
\* awaiting caller receives, the result or the error the synchronous
\* operation gives for the same arguments and the same answer of the
\* server; the same single request is sent, and nothing is delivered
\* before the worker has finished.
C9_AsyncSameAsSync ==
    /\ future.state = "done" => SameAsSync(future)
    /\ last.op \in {"upload_document_async", "query_async"} => SameAsSync(last)
    /\ future.state = "pending" =>
         (future.sent = 0 /\ future.outcome = NoFuture.outcome)

\* query_async rejected with the rate-limit error of the synchronous query
C9_Witness ==
    /\ last.op = "query_async"
    /\ last.args[2] = List(<<"doc_1">>)
    /\ last.resp.kind = "response"
    /\ last.resp.status_code = 429
    /\ last.outcome.tag = "raise"
    /\ last.outcome.exc.type = "SensRateLimitError"
    /\ last.outcome.exc.retry_after = <<5>>
    /\ last.sent = 1

\* C10: every exit from a scoped use, normal or by an exception, leaves the
\* transport released; the pool is never released twice, it has been
\* released exactly once after any exit or close, and it stays released.
C10_TransportReleasedOnce ==
    [][ /\ depth' < depth => (transport' = "closed" /\ released' = 1)
        /\ released' <= 1
        /\ last'.op \in {"close", "__exit__"} =>
               (transport' = "closed" /\ released' = 1)
        /\ transport = "closed" => (transport' = "closed" /\ released' = released)
      ]_vars

\* a scope left by the error of an operation releases the open transport
C10_Witness ==
    /\ last.op = "__exit__"
    /\ last.args[1] = "SensNotFoundError"
    /\ last.tstate = "open"
    /\ transport = "closed"
    /\ released = 1
    /\ depth = 0

----------------------------------------------------------------------------
(* Properties of the decoded sources (SpecMap) *)

\* the `sources` array of the answer, as the server sent it
ServerSources ==
    IF "sources" \in DOMAIN last.resp.body.fields
    THEN last.resp.body.fields["sources"] ELSE <<>>

\* a field of the i-th element of the array, None when the server left it out
ServerSourceField(i, key) ==
    IF key \in DOMAIN ServerSources[i] THEN ServerSources[i][key] ELSE None

\* C11: the sources of the QueryResult returned by query() and of the
\* ContextRail returned by get_context_rail() have the length and the order
\* of the `sources` array of the answer: the i-th Source is decoded from the
\* i-th element, nothing is re-sorted, filtered or deduplicated, and every
\* confidence score is the server's value, unchanged.
C11_SourcesInServerOrder ==
    (/\ Answered
     /\ last.op \in {"query", "get_context_rail"}
     /\ last.outcome.tag = "return") =>
        /\ Len(last.outcome.value.sources) = Len(ServerSources)
        /\ \A i \in 1..Len(ServerSources) :
             /\ last.outcome.value.sources[i].document_id
                  = ServerSources[i]["document_id"]
             /\ last.outcome.value.sources[i].confidence_score
                  = ServerSourceField(i, "confidence_score")
             /\ last.outcome.value.sources[i].document_title
                  = ServerSourceField(i, "document_title")
             /\ last.outcome.value.sources[i].page = ServerSourceField(i, "page")
             /\ last.op = "get_context_rail" =>
                  /\ last.outcome.value.sources[i].excerpt
                       = ServerSourceField(i, "excerpt")
                  /\ last.outcome.value.sources[i].semantic_layer
                       = ServerSourceField(i, "semantic_layer")
        /\ last.op = "query" =>
             last.outcome.value.confidence_score
                = last.resp.body.fields["confidence_score"]

\* a QueryResult whose sources keep the server's order although the less
\* confident source comes first
C11_Witness ==
    /\ last.op = "query"
    /\ last.outcome.tag = "return"
    /\ Len(last.outcome.value.sources) = 2
    /\ last.outcome.value.sources[1].document_id = "doc_2"
    /\ last.outcome.value.sources[1].confidence_score = "0.4"
    /\ last.outcome.value.sources[2].document_id = "doc_1"
    /\ last.outcome.value.sources[2].confidence_score = "0.9"

----------------------------------------------------------------------------
(* Properties of the local checks (Spec) *)

\* C12: query() sends its request, with limit and confidence_threshold as
\* given, for every value of them (limit < 1 and a threshold outside [0,1]
\* included); get, delete and getContextRail send theirs for every id, the
\* empty id included.  None of them raises an error of the taxonomy that
\* the server's answer did not cause: the only calls that a local check
\* stops before the network are uploads of a path that does not exist.
C12_OnlyServerRejects ==
    [][ (CallStep /\ last'.op \in SyncOps) =>
          /\ (last'.op # "upload_document" /\ last'.tstate = "open") =>
                /\ last'.sent = 1
                /\ requests' = requests + 1
                /\ last'.resp = server
          /\ last'.op = "query" =>
                /\ last'.request.body["limit"] = last'.args[4]
                /\ last'.request.body["confidence_threshold"] = last'.args[5]
          /\ last'.op = "get_document" =>
                last'.request.url = "https://api.sens.ai/v1/documents/" \o last'.args[1]
          /\ last'.op = "delete_document" =>
                last'.request.url = "https://api.sens.ai/v1/documents/" \o last'.args[1]
          /\ last'.op = "get_context_rail" =>
                last'.request.url
                    = "https://api.sens.ai/v1/context-rail/" \o last'.args[1]
          /\ (last'.outcome.tag = "raise"
                /\ last'.outcome.exc.type \in SensErrorTypes) =>
                \/ /\ last'.sent = 1
                   /\ server.kind = "response"
                   /\ server.status_code \notin {200, 201, 202, 204}
                   /\ last'.outcome.exc.type = TaxonomyMember(server.status_code)
                \/ /\ last'.op = "upload_document"
                   /\ last'.args[1] \notin {"report.pdf", "archive"}
                   /\ last'.sent = 0
      ]_vars

\* query() with limit 0 and threshold 1.5 reaches the server, which rejects it
C12_Witness ==
    /\ last.op = "query"
    /\ last.args[4] = 0
    /\ last.args[5] = "1.5"
    /\ last.sent = 1
    /\ last.request.body["limit"] = 0
    /\ last.resp.kind = "response"
    /\ last.resp.status_code = 400
    /\ last.outcome.tag = "raise"
    /\ last.outcome.exc.type = "SensValidationError"
    /\ last.outcome.exc.message = "invalid request"

====
